---- MODULE Spec2Model ----
(***************************************************************************)
(* State machine model of oem/compare.py: StateCompare (comparison of two  *)
(* Cartesian states) and SegmentCompare (comparison of two ephemeris       *)
(* segments over the overlap of their spans, with a sampling generator).   *)
(*                                                                         *)
(* An exception is the Python exception with the start of its message;    *)
(* the definitions below give each the name of its role.                   *)
(*                                                                         *)
(* Real numbers are kept exact: vectors have integer components and a      *)
(* Euclidean norm is kept as the integer under the square root.            *)
(***************************************************************************)
EXTENDS Integers, Sequences, FiniteSets, TLC

VARIABLES sc, gens, cmp, lastOp

vars == <<sc, gens, cmp, lastOp>>

(***************************************************************************)
(* Bounds of the model.                                                    *)
(***************************************************************************)
\* epochs are the instants 0..MaxEpoch
MaxEpoch == 2
\* sampling step sizes are -1..MaxStep (seconds)
MaxStep == 2
\* vector components of the input states are 0..MaxCoord
MaxCoord == 1

Epochs == 0..MaxEpoch
StepSizes == (0 - 1)..MaxStep
\* the two separate calls of steps() whose generators are followed
GenIds == {"first", "second"}

(***************************************************************************)
(* Strings whose characters matter (frame identifiers) are sequences of    *)
(* one-character strings, so that str.upper() is computed, not assumed.    *)
(***************************************************************************)
LowerLetters ==
    <<"a", "b", "c", "d", "e", "f", "g", "h", "i", "j", "k", "l", "m",
      "n", "o", "p", "q", "r", "s", "t", "u", "v", "w", "x", "y", "z">>

UpperLetters ==
    <<"A", "B", "C", "D", "E", "F", "G", "H", "I", "J", "K", "L", "M",
      "N", "O", "P", "Q", "R", "S", "T", "U", "V", "W", "X", "Y", "Z">>

\* str.upper() on one character
UpperChar(c) ==
    IF \E i \in DOMAIN LowerLetters : LowerLetters[i] = c
    THEN UpperLetters[CHOOSE i \in DOMAIN LowerLetters : LowerLetters[i] = c]
    ELSE c

\* str.upper()
Upper(s) == [i \in DOMAIN s |-> UpperChar(s[i])]

EME2000 == <<"E", "M", "E", "2", "0", "0", "0">>
GCRF == <<"G", "C", "R", "F">>
ICRF == <<"I", "C", "R", "F">>
MCI == <<"M", "C", "I">>
TEME == <<"T", "E", "M", "E">>
TOD == <<"T", "O", "D">>
GRC == <<"G", "R", "C">>
ITRF2000 == <<"I", "T", "R", "F", "2", "0", "0", "0">>
ITRF93 == <<"I", "T", "R", "F", "-", "9", "3">>
ITRF97 == <<"I", "T", "R", "F", "-", "9", "7">>
TDR == <<"T", "D", "R">>

\* REFERENCE_FRAMES
REFERENCE_FRAMES ==
    [inertial |-> {EME2000, GCRF, ICRF, MCI, TEME, TOD},
     rotating |-> {GRC, ITRF2000, ITRF93, ITRF97, TDR}]

(***************************************************************************)
(* 3-vectors (numpy arrays of shape (3,)) with exact integer components.   *)
(***************************************************************************)
VSub(a, b) == <<a[1] - b[1], a[2] - b[2], a[3] - b[3]>>

Dot(a, b) == a[1] * b[1] + a[2] * b[2] + a[3] * b[3]

\* np.cross
Cross(a, b) ==
    <<a[2] * b[3] - a[3] * b[2],
      a[3] * b[1] - a[1] * b[3],
      a[1] * b[2] - a[2] * b[1]>>

\* np.linalg.norm(v) is sqrt(Dot(v, v)); the value is kept as the radicand
Norm(v) == [sqrt_of |-> Dot(v, v)]

\* v / np.linalg.norm(w): the vector v divided by sqrt(over.sqrt_of)
\* (over.sqrt_of = 0 is numpy's division by zero: nan or inf components)
DivByNorm(v, n) == [vec |-> v, over |-> n.sqrt_of]

(***************************************************************************)
(* StateCompare                                                            *)
(*                                                                         *)
(* A State is [epoch, frame, center, position, velocity].  A StateCompare  *)
(* object is [kind, origin, target, inertial, overridden]: _origin,        *)
(* _target and _inertial are the attributes of the Python object;          *)
(* overridden is history, TRUE once a caller has assigned ._inertial       *)
(* (the override the warning and the error message of the class invite).   *)
(***************************************************************************)
NoObject == [kind |-> "none"]

\* the ValueError of the two constructors
IncompatibleInputsError == "ValueError: Incompatible states"

\* the ValueError of SegmentCompare.__call__
OutOfRangeError == "ValueError: Epoch not contained"

\* the NotImplementedError of StateCompare._require_inertial
UnsupportedOperationError == "NotImplementedError: Velocity compares not supported"

\* the refusal of a step that is not positive
InvalidArgumentError == "ValueError: step"

\* the rotating test on the identifier as written, without upper()
IsRotatingFrameAsWritten(frame) == frame \in REFERENCE_FRAMES.rotating

\* self._origin.frame.upper() in REFERENCE_FRAMES["inertial"]
IsInertialFrame(frame) == Upper(frame) \in REFERENCE_FRAMES.inertial

\* self._origin.frame.upper() in REFERENCE_FRAMES["rotating"]
IsRotatingFrame(frame) == Upper(frame) \in REFERENCE_FRAMES.rotating

\* StateCompare.__init__, the branch taken when the identifiers agree:
\* the value given to self._inertial and whether warnings.warn is called
ClassifyFrame(frame) ==
    IF IsInertialFrame(frame) THEN [inertial |-> TRUE, warned |-> FALSE]
    ELSE IF IsRotatingFrame(frame) THEN [inertial |-> FALSE, warned |-> FALSE]
    ELSE [inertial |-> TRUE, warned |-> TRUE]

\* the condition with the comparison of the centers left out
StatesCompatibleNoCenter(origin, target) ==
    /\ origin.epoch = target.epoch
    /\ origin.frame = target.frame

\* the condition of StateCompare.__init__
StatesCompatible(origin, target) ==
    /\ origin.epoch = target.epoch
    /\ origin.frame = target.frame
    /\ origin.center = target.center

\* StateCompare(origin, target): the exception raised, the object built
\* (NoObject when the constructor raises) and the warning issued
StateCompareInit(origin, target) ==
    IF StatesCompatible(origin, target)
    THEN [err |-> "none",
          obj |-> [kind |-> "StateCompare",
                   origin |-> origin,
                   target |-> target,
                   inertial |-> ClassifyFrame(origin.frame).inertial,
                   overridden |-> FALSE],
          warned |-> ClassifyFrame(origin.frame).warned]
    ELSE [err |-> IncompatibleInputsError, obj |-> NoObject, warned |-> FALSE]

\* StateCompare._require_inertial: the exception it raises
RequireInertial(c) ==
    IF ~c.inertial THEN UnsupportedOperationError ELSE "none"

\* the difference taken the other way round
PositionReversed(c) == VSub(c.origin.position, c.target.position)

\* StateCompare.position
Position(c) == VSub(c.target.position, c.origin.position)

\* StateCompare.range
Range(c) == Norm(VSub(c.target.position, c.origin.position))

\* StateCompare.velocity (the value; the guard is RequireInertial)
Velocity(c) == VSub(c.target.velocity, c.origin.velocity)

\* StateCompare.range_rate (the value; the guard is RequireInertial)
RangeRate(c) == Norm(VSub(c.target.velocity, c.origin.velocity))

\* cross_track of StateCompare._to_ric
CrossTrack(c) == Cross(c.origin.position, c.origin.velocity)

\* in_track taken with the velocity in place of the position
InTrackWithVelocity(c) == Cross(CrossTrack(c), c.origin.velocity)

\* in_track of StateCompare._to_ric
InTrack(c) == Cross(CrossTrack(c), c.origin.position)

\* R of StateCompare._to_ric: three rows, each a vector over a norm
RicRotation(c) ==
    <<DivByNorm(c.origin.position, Norm(c.origin.position)),
      DivByNorm(InTrack(c), Norm(InTrack(c))),
      DivByNorm(CrossTrack(c), Norm(CrossTrack(c)))>>

\* R.dot(vector): component i is Dot(row i, vector) / sqrt(over)
RicProject(R, vector) ==
    [i \in 1..3 |-> [num |-> Dot(R[i].vec, vector), over |-> R[i].over]]

(***************************************************************************)
(* lastOp is the outcome of the latest call on the objects: the operation, *)
(* its argument, the exception that left it ("none" when it returned), the *)
(* value returned, and the calls it made on its collaborators.             *)
(***************************************************************************)
Outcome(op, arg, err, value, calls) ==
    [op |-> op, arg |-> arg, err |-> err, value |-> value, calls |-> calls]

NoValue == [kind |-> "none"]

\* compare = StateCompare(origin, target), the name compare bound once,
\* for an origin and a target among the given states
NewStateCompare(origins, targets) ==
    /\ cmp = NoObject
    /\ lastOp.op # "StateCompare"
    /\ \E origin \in origins, target \in targets :
        LET r == StateCompareInit(origin, target) IN
        /\ cmp' = r.obj
        /\ lastOp' = Outcome("StateCompare", <<origin, target>>, r.err, r.obj,
                             IF r.warned THEN <<"UserWarning">> ELSE <<>>)
    /\ UNCHANGED <<sc, gens>>

\* compare._inertial = flag, the documented override
OverrideInertial(flag) ==
    /\ cmp # NoObject
    /\ cmp' = [cmp EXCEPT !.inertial = flag, !.overridden = TRUE]
    /\ lastOp' = Outcome("_inertial", flag, "none", NoValue, <<>>)
    /\ UNCHANGED <<sc, gens>>

\* compare.position
GetPosition ==
    /\ cmp # NoObject
    /\ lastOp' = Outcome("position", <<>>, "none", Position(cmp), <<>>)
    /\ UNCHANGED <<sc, gens, cmp>>

\* compare.range
GetRange ==
    /\ cmp # NoObject
    /\ lastOp' = Outcome("range", <<>>, "none", Range(cmp), <<>>)
    /\ UNCHANGED <<sc, gens, cmp>>

\* compare.velocity
GetVelocity ==
    /\ cmp # NoObject
    /\ lastOp' = IF RequireInertial(cmp) # "none"
                 THEN Outcome("velocity", <<>>, RequireInertial(cmp), NoValue, <<>>)
                 ELSE Outcome("velocity", <<>>, "none", Velocity(cmp), <<>>)
    /\ UNCHANGED <<sc, gens, cmp>>

\* compare.range_rate
GetRangeRate ==
    /\ cmp # NoObject
    /\ lastOp' = IF RequireInertial(cmp) # "none"
                 THEN Outcome("range_rate", <<>>, RequireInertial(cmp), NoValue, <<>>)
                 ELSE Outcome("range_rate", <<>>, "none", RangeRate(cmp), <<>>)
    /\ UNCHANGED <<sc, gens, cmp>>

\* compare.position_ric: self.position, then _to_ric (guard, rotation, dot);
\* calls records the rotation R that was built
GetPositionRic ==
    /\ cmp # NoObject
    /\ lastOp' = IF RequireInertial(cmp) # "none"
                 THEN Outcome("position_ric", <<>>, RequireInertial(cmp), NoValue, <<>>)
                 ELSE Outcome("position_ric", <<>>, "none",
                              RicProject(RicRotation(cmp), Position(cmp)),
                              RicRotation(cmp))
    /\ UNCHANGED <<sc, gens, cmp>>

\* compare.velocity_ric: self.velocity (guarded), then _to_ric
GetVelocityRic ==
    /\ cmp # NoObject
    /\ lastOp' = IF RequireInertial(cmp) # "none"
                 THEN Outcome("velocity_ric", <<>>, RequireInertial(cmp), NoValue, <<>>)
                 ELSE Outcome("velocity_ric", <<>>, "none",
                              RicProject(RicRotation(cmp), Velocity(cmp)),
                              RicRotation(cmp))
    /\ UNCHANGED <<sc, gens, cmp>>

(***************************************************************************)
(* Collaborators of SegmentCompare that live in other modules of the       *)
(* package: oem.tools (epoch_span_overlap, epoch_span_contains,            *)
(* time_range), EphemerisSegment.__call__ and State.__sub__.               *)
(*                                                                         *)
(* A span is <<start, stop>>, a closed interval of epochs; None is <<>>.   *)
(* An EphemerisSegment is [metadata, span, x0], x0 selecting its orbit.    *)
(***************************************************************************)
None == <<>>

Max2(a, b) == IF a >= b THEN a ELSE b

Min2(a, b) == IF a <= b THEN a ELSE b

\* oem.tools.epoch_span_overlap: the intersection of two closed spans,
\* None when they share no epoch
EpochSpanOverlap(span1, span2) ==
    LET lo == Max2(span1[1], span2[1])
        hi == Min2(span1[2], span2[2])
    IN IF hi < lo THEN None ELSE <<lo, hi>>

\* oem.tools.epoch_span_contains: closed-interval membership (subscripting
\* None is a TypeError)
EpochSpanContains(span, epoch) ==
    IF span = None
    THEN [err |-> "TypeError", value |-> FALSE]
    ELSE [err |-> "none", value |-> span[1] <= epoch /\ epoch <= span[2]]

\* oem.tools.time_range(start, stop, step): item number k (from 0) of the
\* sequence start, start + step, ... that stays within [start, stop];
\* a step that is not positive is refused
TimeRangeNext(start, stop, step, k) ==
    IF step <= 0 THEN [err |-> InvalidArgumentError, epoch |-> start]
    ELSE IF start + k * step <= stop
         THEN [err |-> "none", epoch |-> start + k * step]
         ELSE [err |-> "StopIteration", epoch |-> start]

\* EphemerisSegment.__call__(epoch): the State of the segment at epoch, in
\* the frame and about the centre its metadata names
SegmentState(segment, epoch) ==
    [epoch |-> epoch,
     frame |-> segment.metadata.REF_FRAME,
     center |-> segment.metadata.CENTER_NAME,
     position |-> <<segment.x0, epoch, 0>>,
     velocity |-> <<0, segment.x0, 0>>]

\* State.__sub__: minuend - subtrahend is the comparison whose origin is
\* the subtrahend and whose target is the minuend
StateSub(minuend, subtrahend) == StateCompareInit(subtrahend, minuend)

(***************************************************************************)
(* SegmentCompare                                                          *)
(*                                                                         *)
(* The object is [kind, span, origin, target]: _span, _origin, _target.    *)
(***************************************************************************)
\* the condition of SegmentCompare.__init__
SegmentsCompatible(origin, target) ==
    /\ origin.metadata.REF_FRAME = target.metadata.REF_FRAME
    /\ origin.metadata.CENTER_NAME = target.metadata.CENTER_NAME

\* SegmentCompare(origin, target): the exception raised and the object
\* built (NoObject when the constructor raises)
SegmentCompareInit(origin, target) ==
    IF SegmentsCompatible(origin, target)
    THEN [err |-> "none",
          obj |-> [kind |-> "SegmentCompare",
                   span |-> EpochSpanOverlap(origin.span, target.span),
                   origin |-> origin,
                   target |-> target]]
    ELSE [err |-> IncompatibleInputsError, obj |-> NoObject]

\* __contains__ without the test of self._span against None
SegContainsUnguarded(s, epoch) == EpochSpanContains(s.span, epoch)

\* SegmentCompare.__contains__
SegContains(s, epoch) ==
    IF s.span # None
    THEN EpochSpanContains(s.span, epoch)
    ELSE [err |-> "none", value |-> FALSE]

\* SegmentCompare.is_empty
SegIsEmpty(s) == s.span = None

\* self._target(epoch) - self._origin(epoch), the last line of __call__:
\* the target segment is evaluated first, then the origin segment
SegDifference(s, epoch) ==
    LET r == StateSub(SegmentState(s.target, epoch), SegmentState(s.origin, epoch))
    IN [err |-> r.err,
        value |-> r.obj,
        calls |-> <<[segment |-> "target", epoch |-> epoch],
                    [segment |-> "origin", epoch |-> epoch]>>]

\* __call__ without the test of the epoch
SegCallUnchecked(s, epoch) == SegDifference(s, epoch)

\* SegmentCompare.__call__
SegCall(s, epoch) ==
    IF SegContains(s, epoch).err # "none"
    THEN [err |-> SegContains(s, epoch).err, value |-> NoValue, calls |-> <<>>]
    ELSE IF ~SegContains(s, epoch).value
         THEN [err |-> OutOfRangeError, value |-> NoValue, calls |-> <<>>]
         ELSE SegDifference(s, epoch)

(***************************************************************************)
(* The generator of SegmentCompare.steps.  A generator frame is            *)
(* [status, step, k, out]: status is "unborn" (steps not called),          *)
(* "created" (steps called, no line of its body run yet), "suspended" (at  *)
(* the yield), "done" (returned) or "failed" (left by an exception); step  *)
(* is the argument; k counts the epochs taken from time_range; out is the  *)
(* sequence of values yielded so far.                                      *)
(***************************************************************************)
Unborn == [status |-> "unborn", step |-> 0, k |-> 0, out |-> <<>>]

\* steps(step_size): the body of a generator function does not run at the
\* call, whatever the argument
NewGenerator(step) == [status |-> "created", step |-> step, k |-> 0, out |-> <<>>]

\* the span of the origin segment in place of the overlap
StepsSpanOfOrigin(s) == s.origin.span

\* self._span, the span steps hands to time_range
StepsSpan(s) == s.span

\* yield self(epoch)
StepsYield(s, epoch) == SegCall(s, epoch)

\* next(generator): the frame afterwards, the exception that reaches the
\* caller, the value yielded and the segment evaluations made
PullStep(s, gen) ==
    IF gen.status \in {"done", "failed"}
    THEN [gen |-> gen, err |-> "StopIteration", value |-> NoValue, calls |-> <<>>]
    ELSE IF StepsSpan(s) = None
    THEN \* *self._span unpacks None
         [gen |-> [gen EXCEPT !.status = "failed"],
          err |-> "TypeError", value |-> NoValue, calls |-> <<>>]
    ELSE LET t == TimeRangeNext(StepsSpan(s)[1], StepsSpan(s)[2], gen.step, gen.k) IN
         IF t.err = "StopIteration"
         THEN [gen |-> [gen EXCEPT !.status = "done"],
               err |-> "StopIteration", value |-> NoValue, calls |-> <<>>]
         ELSE IF t.err # "none"
         THEN [gen |-> [gen EXCEPT !.status = "failed"],
               err |-> t.err, value |-> NoValue, calls |-> <<>>]
         ELSE LET r == StepsYield(s, t.epoch) IN
              IF r.err # "none"
              THEN [gen |-> [gen EXCEPT !.status = "failed", !.k = @ + 1],
                    err |-> r.err, value |-> NoValue, calls |-> r.calls]
              ELSE [gen |-> [gen EXCEPT !.status = "suspended", !.k = @ + 1,
                                        !.out = Append(@, r.value)],
                    err |-> "none", value |-> r.value, calls |-> r.calls]

\* the count of epochs taken kept in one place for all generators
SaveFrameSharedCursor(gs, g, frame) ==
    [h \in DOMAIN gs |->
        IF h = g THEN frame
        ELSE IF gs[h].status = "unborn" THEN gs[h]
        ELSE [gs[h] EXCEPT !.k = frame.k]]

\* the frame of generator g after a step: the loop variables of steps are
\* locals of the generator, one set per call of steps
SaveFrame(gs, g, frame) == [gs EXCEPT ![g] = frame]

(***************************************************************************)
(* Operations on a SegmentCompare                                          *)
(***************************************************************************)
\* compare = SegmentCompare(origin, target), the name compare bound once,
\* for an origin and a target among the given segments
NewSegmentCompare(origins, targets) ==
    /\ sc = NoObject
    /\ lastOp.op # "SegmentCompare"
    /\ \E origin \in origins, target \in targets :
        LET r == SegmentCompareInit(origin, target) IN
        /\ sc' = r.obj
        /\ lastOp' = Outcome("SegmentCompare", <<origin, target>>, r.err, r.obj, <<>>)
    /\ UNCHANGED <<gens, cmp>>

\* epoch in compare
Contains(epoch) ==
    /\ sc # NoObject
    /\ lastOp' = Outcome("contains", epoch, SegContains(sc, epoch).err,
                         SegContains(sc, epoch).value, <<>>)
    /\ UNCHANGED <<sc, gens, cmp>>

\* compare.is_empty
IsEmpty ==
    /\ sc # NoObject
    /\ lastOp' = Outcome("is_empty", <<>>, "none", SegIsEmpty(sc), <<>>)
    /\ UNCHANGED <<sc, gens, cmp>>

\* compare(epoch)
Call(epoch) ==
    /\ sc # NoObject
    /\ LET r == SegCall(sc, epoch) IN
        lastOp' = Outcome("call", epoch, r.err, r.value, r.calls)
    /\ UNCHANGED <<sc, gens, cmp>>

\* generator g = compare.steps(step_size)
Steps(g, step_size) ==
    /\ sc # NoObject
    /\ gens[g].status = "unborn"
    /\ gens' = SaveFrame(gens, g, NewGenerator(step_size))
    /\ lastOp' = Outcome("steps", <<g, step_size>>, "none", NoValue, <<>>)
    /\ UNCHANGED <<sc, cmp>>

\* next(generator g)
Pull(g) ==
    /\ sc # NoObject
    /\ gens[g].status # "unborn"
    /\ LET r == PullStep(sc, gens[g]) IN
        /\ gens' = SaveFrame(gens, g, r.gen)
        /\ lastOp' = Outcome("next", g, r.err, r.value, r.calls)
    /\ UNCHANGED <<sc, cmp>>

(***************************************************************************)
(* Inputs                                                                  *)
(***************************************************************************)
Coords == 0..MaxCoord

Vecs == {<<x, y, z>> : x \in Coords, y \in Coords, z \in Coords}

Spans == {s \in Epochs \X Epochs : s[1] <= s[2]}

Centers == {"EARTH", "MOON"}

\* frame identifiers as callers write them: listed names, the same names in
\* other letter cases, and a name of neither list
InputFrames ==
    {GCRF, <<"g", "c", "r", "f">>, TDR, <<"T", "d", "r">>,
     <<"i", "t", "r", "f", "-", "9", "3">>, GRC, <<"L", "V", "L", "H">>}

States(epochs, frames, centers, positions, velocities) ==
    [epoch : epochs, frame : frames, center : centers,
     position : positions, velocity : velocities]

Segments(frames, centers, x0s) ==
    [metadata : [REF_FRAME : frames, CENTER_NAME : centers],
     span : Spans, x0 : x0s]

Start == Outcome("start", <<>>, "none", NoValue, <<>>)

Init ==
    /\ sc = NoObject
    /\ cmp = NoObject
    /\ gens = [g \in GenIds |-> Unborn]
    /\ lastOp = Start

(***************************************************************************)
(* Spec: the life of one SegmentCompare.                                   *)
(***************************************************************************)
Next ==
    \/ NewSegmentCompare(Segments({GCRF}, {"EARTH"}, {1}),
                         Segments({GCRF, TDR}, Centers, {2}))
    \/ \E epoch \in Epochs : Contains(epoch)
    \/ IsEmpty
    \/ \E epoch \in Epochs : Call(epoch)
    \/ \E g \in GenIds, step_size \in StepSizes : Steps(g, step_size)
    \/ \E g \in GenIds : Pull(g)

Spec == Init /\ [][Next]_vars

(***************************************************************************)
(* CtorSpec: the two constructors on compatible and incompatible inputs.   *)
(***************************************************************************)
CtorFrames == {GCRF, <<"g", "c", "r", "f">>, TDR}

CtorStates == States(0..1, CtorFrames, Centers, {<<1, 0, 0>>}, {<<0, 1, 0>>})

CtorSegments == Segments({GCRF, TDR}, Centers, {1})

CtorNext ==
    \/ NewSegmentCompare(CtorSegments, CtorSegments)
    \/ NewStateCompare(CtorStates, CtorStates)
    \/ IsEmpty

CtorSpec == Init /\ [][CtorNext]_vars

(***************************************************************************)
(* StateSpec: one StateCompare in every kind of frame, its six quantities  *)
(* and the override of its classification.                                 *)
(***************************************************************************)
FrameStates ==
    States({0}, InputFrames, Centers, {<<1, 0, 0>>, <<0, 1, 1>>},
           {<<0, 1, 0>>, <<0, 1, 1>>})

StateNext ==
    \/ NewStateCompare(FrameStates, FrameStates)
    \/ \E flag \in BOOLEAN : OverrideInertial(flag)
    \/ GetPosition
    \/ GetRange
    \/ GetVelocity
    \/ GetRangeRate
    \/ GetPositionRic
    \/ GetVelocityRic

StateSpec == Init /\ [][StateNext]_vars

(***************************************************************************)
(* KinSpec: the quantities of a StateCompare over all small vectors.       *)
(***************************************************************************)
KinOrigins == States({0}, {GCRF, TDR}, {"EARTH"}, Vecs, Vecs)

KinTargets == States({0}, {GCRF, TDR}, {"EARTH"}, Vecs, {<<0, 0, 0>>, <<1, 0, 1>>})

KinNext ==
    \/ NewStateCompare(KinOrigins, KinTargets)
    \/ GetPosition
    \/ GetRange
    \/ GetVelocity
    \/ GetRangeRate
    \/ GetPositionRic
    \/ GetVelocityRic

KinSpec == Init /\ [][KinNext]_vars

(***************************************************************************)
(* Properties                                                              *)
(***************************************************************************)

\* C1: a comparison is built exactly when the compared identifiers agree
\* (epoch, frame and center for StateCompare; REF_FRAME and CENTER_NAME for
\* SegmentCompare, whatever the spans), and otherwise the constructor
\* raises the IncompatibleInputsError and no object exists.
C1_ConstructionIffIdentifiersAgree ==
    /\ lastOp.op = "StateCompare" =>
        LET o == lastOp.arg[1]
            t == lastOp.arg[2]
            agree == o.epoch = t.epoch /\ o.frame = t.frame /\ o.center = t.center
        IN /\ (lastOp.err = "none") <=> agree
           /\ agree => /\ cmp.kind = "StateCompare"
                       /\ cmp.origin = o
                       /\ cmp.target = t
           /\ ~agree => /\ lastOp.err = IncompatibleInputsError
                        /\ cmp = NoObject
    /\ lastOp.op = "SegmentCompare" =>
        LET o == lastOp.arg[1].metadata
            t == lastOp.arg[2].metadata
            agree == o.REF_FRAME = t.REF_FRAME /\ o.CENTER_NAME = t.CENTER_NAME
        IN /\ (lastOp.err = "none") <=> agree
           /\ agree => /\ sc.kind = "SegmentCompare"
                       /\ sc.origin = lastOp.arg[1]
                       /\ sc.target = lastOp.arg[2]
           /\ ~agree => /\ lastOp.err = IncompatibleInputsError
                        /\ sc = NoObject

\* a SegmentCompare of two segments with disjoint spans exists, and a
\* StateCompare of two states that differ in the center alone was refused
C1_Witness ==
    /\ sc # NoObject
    /\ sc.origin.span[2] < sc.target.span[1]
    /\ lastOp.op = "StateCompare"
    /\ lastOp.err = IncompatibleInputsError
    /\ lastOp.arg[1].epoch = lastOp.arg[2].epoch
    /\ lastOp.arg[1].frame = lastOp.arg[2].frame
    /\ lastOp.arg[1].center # lastOp.arg[2].center
    /\ cmp = NoObject

\* two identifiers are the same up to the case of their letters
SameIgnoringCase(a, b) ==
    /\ Len(a) = Len(b)
    /\ \A i \in 1..Len(a) :
        \/ a[i] = b[i]
        \/ \E j \in 1..26 : {a[i], b[i]} = {LowerLetters[j], UpperLetters[j]}

C2_RotatingNames == {GRC, ITRF2000, ITRF93, ITRF97, TDR}

C2_InertialNames == {EME2000, GCRF, ICRF, MCI, TEME, TOD}

\* C2: on a StateCompare whose classification was not overridden, position
\* and range are always obtained, and velocity, range_rate, velocity_ric and
\* position_ric raise the UnsupportedOperationError exactly when the origin
\* frame is, up to letter case, one of GRC, ITRF2000, ITRF-93, ITRF-97, TDR;
\* a frame of neither list is built with a warning and fails nowhere.
C2_InertialOnlyFailIffRotating ==
    (cmp # NoObject /\ ~cmp.overridden) =>
        LET rotating == \E r \in C2_RotatingNames : SameIgnoringCase(cmp.origin.frame, r)
            inertial == \E r \in C2_InertialNames : SameIgnoringCase(cmp.origin.frame, r)
        IN /\ lastOp.op \in {"position", "range"} =>
                lastOp.err = "none" /\ lastOp.value # NoValue
           /\ lastOp.op \in {"velocity", "range_rate", "velocity_ric", "position_ric"} =>
                /\ (lastOp.err = UnsupportedOperationError) <=> rotating
                /\ ~rotating => lastOp.err = "none" /\ lastOp.value # NoValue
           /\ lastOp.op = "StateCompare" =>
                /\ lastOp.err = "none"
                /\ (lastOp.calls = <<"UserWarning">>) <=> (~rotating /\ ~inertial)

\* velocity_ric was refused on a StateCompare whose frame is written "Tdr"
C2_Witness ==
    /\ cmp # NoObject
    /\ ~cmp.overridden
    /\ cmp.origin.frame = <<"T", "d", "r">>
    /\ lastOp.op = "velocity_ric"
    /\ lastOp.err = UnsupportedOperationError

\* C8: position is target.position minus origin.position, component by
\* component; range is the Euclidean norm of that vector (its square is the
\* sum of the squared components); reading either leaves origin and target
\* as they were.
C8_PositionAndRange ==
    /\ [](cmp # NoObject =>
            LET o == cmp.origin.position
                t == cmp.target.position
            IN /\ lastOp.op = "position" =>
                    /\ lastOp.err = "none"
                    /\ \A i \in 1..3 : lastOp.value[i] = t[i] - o[i]
               /\ lastOp.op = "range" =>
                    /\ lastOp.err = "none"
                    /\ lastOp.value.sqrt_of =
                         (t[1] - o[1]) * (t[1] - o[1]) + (t[2] - o[2]) * (t[2] - o[2])
                         + (t[3] - o[3]) * (t[3] - o[3]))
    /\ [][lastOp'.op \in {"position", "range"} => cmp' = cmp]_vars

\* position was read where the target is not at the origin's position
C8_Witness ==
    /\ cmp # NoObject
    /\ lastOp.op = "position"
    /\ lastOp.value = <<1, 0 - 1, 0>>

\* two vectors are parallel (linearly dependent; a zero vector is parallel
\* to every vector): all 2x2 minors vanish
Parallel(a, b) == \A i, j \in 1..3 : a[i] * b[j] = a[j] * b[i]

\* the row is the unit vector along direction d
UnitAlong(row, d) ==
    /\ Parallel(row.vec, d)
    /\ Dot(row.vec, d) > 0
    /\ row.over = Dot(row.vec, row.vec)

\* C9: when origin.position and origin.velocity are non-zero and not
\* parallel, the rows of the rotation used by position_ric and velocity_ric
\* are the unit vectors along origin.position, along (position x velocity)
\* x position and along position x velocity, in that order, and are
\* pairwise orthogonal.
C9_RicRowsOrthonormal ==
    (/\ cmp # NoObject
     /\ lastOp.op \in {"position_ric", "velocity_ric"}
     /\ lastOp.err = "none"
     /\ ~Parallel(cmp.origin.position, cmp.origin.velocity)) =>
        LET p == cmp.origin.position
            v == cmp.origin.velocity
            R == lastOp.calls
        IN /\ UnitAlong(R[1], p)
           /\ UnitAlong(R[2], Cross(Cross(p, v), p))
           /\ UnitAlong(R[3], Cross(p, v))
           /\ \A i, j \in 1..3 : i # j => Dot(R[i].vec, R[j].vec) = 0
           /\ \A i \in 1..3 :
                lastOp.value[i].over = R[i].over
                /\ lastOp.value[i].num =
                     Dot(R[i].vec, IF lastOp.op = "position_ric"
                                   THEN VSub(cmp.target.position, p)
                                   ELSE VSub(cmp.target.velocity, v))

\* velocity_ric was read where position and velocity are neither parallel
\* nor perpendicular
C9_Witness ==
    /\ cmp # NoObject
    /\ lastOp.op = "velocity_ric"
    /\ lastOp.err = "none"
    /\ ~Parallel(cmp.origin.position, cmp.origin.velocity)
    /\ Dot(cmp.origin.position, cmp.origin.velocity) # 0

\* the epochs that lie in both the origin span and the target span
SharedEpochs(s) ==
    {e \in Epochs : /\ s.origin.span[1] <= e /\ e <= s.origin.span[2]
                    /\ s.target.span[1] <= e /\ e <= s.target.span[2]}

\* C3: is_empty is true iff the two spans share no epoch; contains(epoch)
\* never fails and is true iff the epoch lies in the closed overlap; the
\* overlap, is_empty and the answers of contains stay what they were at
\* construction whatever contains, evaluate and steps calls are made.
C3_OverlapFixedAndClosed ==
    /\ [](sc # NoObject =>
            /\ sc.span = IF SharedEpochs(sc) = {} THEN None
                         ELSE <<CHOOSE e \in SharedEpochs(sc) :
                                    \A f \in SharedEpochs(sc) : e <= f,
                                  CHOOSE e \in SharedEpochs(sc) :
                                    \A f \in SharedEpochs(sc) : f <= e>>
            /\ SegIsEmpty(sc) <=> (SharedEpochs(sc) = {})
            /\ \A e \in Epochs :
                 SegContains(sc, e) = [err |-> "none", value |-> e \in SharedEpochs(sc)]
            /\ lastOp.op = "is_empty" => lastOp.value = (SharedEpochs(sc) = {})
            /\ lastOp.op = "contains" =>
                 /\ lastOp.err = "none"
                 /\ lastOp.value = (lastOp.arg \in SharedEpochs(sc)))
    /\ [][sc # NoObject => sc' = sc]_vars

\* after values were drawn from a generator, contains answers TRUE at the
\* upper bound of an overlap of more than one epoch
C3_Witness ==
    /\ sc # NoObject
    /\ sc.span # None
    /\ sc.span[1] < sc.span[2]
    /\ \E g \in GenIds : Len(gens[g].out) >= 2
    /\ lastOp.op = "contains"
    /\ lastOp.arg = sc.span[2]
    /\ lastOp.value = TRUE

RECURSIVE Drain(_, _)
Drain(s, gen) ==
    IF gen.status \in {"done", "failed"} THEN gen
    ELSE Drain(s, PullStep(s, gen).gen)

IsPrefix(a, b) ==
    /\ Len(a) <= Len(b)
    /\ \A i \in 1..Len(a) : a[i] = b[i]

\* C5: two calls of steps give independent sequences: however the pulls on
\* the two are interleaved, and wherever one is abandoned, what a sequence
\* has yielded is the beginning of what it yields when consumed alone, and
\* a sequence that has ended has yielded all of it and ended the same way.
C5_IndependentSequences ==
    \A g \in GenIds :
        (sc # NoObject /\ gens[g].status # "unborn") =>
            LET alone == Drain(sc, NewGenerator(gens[g].step)) IN
            /\ IsPrefix(gens[g].out, alone.out)
            /\ gens[g].status \in {"done", "failed"} =>
                 gens[g].out = alone.out /\ gens[g].status = alone.status

\* the second sequence has run to its end after three values while the
\* first, begun before it, stands abandoned after one value
C5_Witness ==
    /\ sc # NoObject
    /\ gens["first"].status = "suspended"
    /\ Len(gens["first"].out) = 1
    /\ gens["second"].status = "done"
    /\ Len(gens["second"].out) = 3
    /\ gens["first"].step = gens["second"].step

\* C6: on an Active SegmentCompare and with a positive step_size, steps
\* yields StateCompare values only, one per pull and none before the first
\* pull, at the epochs start, start + step_size, ... of the overlap; every
\* one of these epochs lies in the closed overlap, no pull fails, and the
\* sequence ends after floor((stop - start) / step_size) + 1 values.
C6_UniformSamplesInsideOverlap ==
    sc # NoObject /\ sc.span # None =>
        /\ \A g \in GenIds :
            (gens[g].status # "unborn" /\ gens[g].step > 0) =>
                LET start == sc.span[1]
                    stop == sc.span[2]
                    step == gens[g].step
                    n == ((stop - start) \div step) + 1
                    out == gens[g].out
                IN /\ gens[g].status # "failed"
                   /\ gens[g].status = "created" => out = <<>>
                   /\ Len(out) <= n
                   /\ gens[g].status = "done" => Len(out) = n
                   /\ \A i \in 1..Len(out) :
                        /\ out[i].kind = "StateCompare"
                        /\ out[i].origin = SegmentState(sc.origin, start + (i - 1) * step)
                        /\ out[i].target = SegmentState(sc.target, start + (i - 1) * step)
                        /\ start + (i - 1) * step \in SharedEpochs(sc)
        /\ lastOp.op = "steps" => lastOp.calls = <<>>
        /\ (lastOp.op = "next" /\ gens[lastOp.arg].step > 0) =>
            /\ lastOp.err \in {"none", "StopIteration"}
            /\ lastOp.err = "none" =>
                 /\ lastOp.value = gens[lastOp.arg].out[Len(gens[lastOp.arg].out)]
                 /\ Len(lastOp.calls) = 2
            /\ lastOp.err = "StopIteration" => lastOp.calls = <<>>

\* a sequence of step 2 over an overlap of three epochs has ended after
\* its two values
C6_Witness ==
    /\ sc # NoObject
    /\ sc.span # None
    /\ sc.span[2] - sc.span[1] = 2
    /\ \E g \in GenIds :
        /\ gens[g].step = 2
        /\ gens[g].status = "done"
        /\ Len(gens[g].out) = 2
        /\ lastOp.op = "next"
        /\ lastOp.arg = g
        /\ lastOp.err = "StopIteration"

\* C7 as claimed: steps(step_size) with a step_size that is not positive
\* raises the InvalidArgumentError at the call itself, and no StateCompare
\* is ever yielded.
C7_NonPositiveStepRefusedEagerly ==
    /\ (lastOp.op = "steps" /\ lastOp.arg[2] <= 0) =>
            lastOp.err = InvalidArgumentError
    /\ \A g \in GenIds :
        (gens[g].status # "unborn" /\ gens[g].step <= 0) => gens[g].out = <<>>

\* C10 as claimed: on an Empty SegmentCompare the sequence of steps with a
\* positive step_size ends normally after zero values and raises no error.
C10_EmptyCompareYieldsNothing ==
    (sc # NoObject /\ SegIsEmpty(sc)) =>
        /\ \A g \in GenIds :
            (gens[g].step > 0 /\ gens[g].status \notin {"unborn", "created"}) =>
                gens[g].status = "done" /\ gens[g].out = <<>>
        /\ (lastOp.op = "next" /\ gens[lastOp.arg].step > 0) =>
                lastOp.err = "StopIteration"

====
